---- MODULE Spec2Model ----
(***************************************************************************)
(* A model of youtube-dl-rs: the process execution protocol of             *)
(* YoutubeDl::run_process / run_process_async, the result handling of      *)
(* run / run_raw / download_to, and the serde deserialization of the       *)
(* output document into YoutubeDlOutput (lib.rs, model.rs).                *)
(***************************************************************************)
EXTENDS Integers, Sequences, FiniteSets, TLC

(***************************************************************************)
(* Bounds of the model.                                                    *)
(***************************************************************************)
\* capacity of an OS pipe, in tokens
PipeCap == 2
\* last instant of the clock
MaxTime == 3
\* largest process_timeout a builder is given
MaxTimeout == 2
\* longest `formats` array of a document
MaxFormats == 2
\* longest `entries` array of a document
MaxEntries == 2
\* longest `fragments` array of a document
MaxFragments == 2
\* largest count passed to with_count
MaxCount == 3
\* most assets of a release
MaxAssets == 2
\* most chunks of an asset response
MaxChunks == 2
\* most options set on a builder
MaxOptions == 2
\* most calls of extra_arg on a builder
MaxExtraArgs == 2

(***************************************************************************)
(* JSON values (serde_json::Value).  A scalar is a record [k, s]: k is the *)
(* JSON type ("absent" stands for a key that the object does not have),    *)
(* s the text of a string or of a number.                                  *)
(***************************************************************************)
Absent == [k |-> "absent", s |-> ""]
Null == [k |-> "null", s |-> ""]
Str(x) == [k |-> "str", s |-> x]
Num(x) == [k |-> "num", s |-> x]

\* an array-valued key: absent, null or an array
NoArr == [k |-> "absent", a |-> <<>>]
NullArr == [k |-> "null", a |-> <<>>]
Arr(q) == [k |-> "arr", a |-> q]

\* the object of one element of `formats`
FormatObj(ac, vc, pr) == [acodec |-> ac, vcodec |-> vc, protocol |-> pr]

\* the object of one element of `fragments`
FragmentObj(du, url) == [duration |-> du, url |-> url]

\* a JSON value at the top level or in `entries`: k is its JSON type, the
\* other fields are the keys of an object (all absent when k is not "obj")
Obj(ty, id, ti, ac, vc, pr, du, fo, en) ==
    [k |-> "obj", type_ |-> ty, id |-> id, title |-> ti, acodec |-> ac,
     vcodec |-> vc, protocol |-> pr, duration |-> du, formats |-> fo,
     entries |-> en, average_rating |-> Absent, playlist_index |-> Absent,
     fragments |-> NoArr]

NullValue ==
    [k |-> "null", type_ |-> Absent, id |-> Absent, title |-> Absent,
     acodec |-> Absent, vcodec |-> Absent, protocol |-> Absent,
     duration |-> Absent, formats |-> NoArr, entries |-> NoArr,
     average_rating |-> Absent, playlist_index |-> Absent,
     fragments |-> NoArr]

(***************************************************************************)
(* Typed values.  Option<String> / Option<Protocol> / Option<Value> are    *)
(* [some, k, s]; a field deserializer returns [ok, val].                   *)
(***************************************************************************)
None == [some |-> FALSE, k |-> "", s |-> ""]
Some(kind, x) == [some |-> TRUE, k |-> kind, s |-> x]
FOk(v) == [ok |-> TRUE, val |-> v]
FErr == [ok |-> FALSE, val |-> None]

\* DeString as on a key marked serde(default): a missing key is ""
DeString_or_default(jv) ==
    CASE jv.k = "str" -> FOk(Some("str", jv.s))
      [] jv.k = "absent" -> FOk(Some("str", ""))
      [] OTHER -> FErr

\* serde's impl Deserialize for String, on a key that has no default
DeString(jv) ==
    IF jv.k = "str" THEN FOk(Some("str", jv.s)) ELSE FErr

\* Option<String>: a missing key and null are None, a string is Some
DeOptString(jv) ==
    CASE jv.k = "absent" -> FOk(None)
      [] jv.k = "null" -> FOk(None)
      [] jv.k = "str" -> FOk(Some("str", jv.s))
      [] OTHER -> FErr

\* DeOptValue as for a field of type Option<f64>: a string is an error
DeOptValue_number_only(jv) ==
    CASE jv.k = "absent" -> FOk(None)
      [] jv.k = "null" -> FOk(None)
      [] jv.k = "num" -> FOk(Some("num", jv.s))
      [] OTHER -> FErr

\* Option<Value>: a missing key and null are None, anything else is kept
DeOptValue(jv) ==
    CASE jv.k = "absent" -> FOk(None)
      [] jv.k = "null" -> FOk(None)
      [] OTHER -> FOk(Some(jv.k, jv.s))

\* the serde(rename) tags of enum Protocol and the variant of each
ProtocolVariants ==
    [http |-> "Http", https |-> "Https", rtsp |-> "Rtsp", rtmp |-> "Rtmp",
     rtmpe |-> "Rtmpe", mms |-> "Mms", f4m |-> "F4M", ism |-> "Ism",
     m3u8 |-> "M3U8", m3u8_native |-> "M3U8Native",
     http_dash_segments |-> "HttpDashSegments", mhtml |-> "Mhtml"]
    @@ ("https+https" :> "HttpsHttps")
    @@ ("http_dash_segments+https" :> "HttpDashSegmentsHttps")
    @@ ("http_dash_segments+http_dash_segments" :>
            "HttpDashSegmentsHttpDashSegments")
    @@ ("m3u8_native+m3u8_native" :> "M3U8NativeM3U8Native")

ProtocolTags == DOMAIN ProtocolVariants

\* the derived Deserialize of enum Protocol: a tag selects its variant, any
\* other string is serde's "unknown variant" error (no variant is marked
\* serde(other))
DeProtocol(jv) ==
    IF jv.k = "str" /\ jv.s \in ProtocolTags
    THEN FOk(Some("Protocol", ProtocolVariants[jv.s]))
    ELSE FErr

\* Option<Protocol>
DeOptProtocol(jv) ==
    CASE jv.k = "absent" -> FOk(None)
      [] jv.k = "null" -> FOk(None)
      [] OTHER -> DeProtocol(jv)

\* parse_codec without its match on "none": plain Option<String>
parse_codec_keeps_none(jv) == DeOptString(jv)

\* parse_codec under serde(default): a missing key is Default (None); else
\* Option<Option<String>> is read, unwrap_or_default, and Some("none") is
\* turned into None
parse_codec(jv) ==
    CASE jv.k = "absent" -> FOk(None)
      [] jv.k = "null" -> FOk(None)
      [] jv.k = "str" ->
            IF jv.s = "none" THEN FOk(None) ELSE FOk(Some("str", jv.s))
      [] OTHER -> FErr

\* struct Format
DeFormat(o) ==
    LET ac == parse_codec(o.acodec)
        vc == parse_codec(o.vcodec)
        pr == DeOptProtocol(o.protocol)
    IN  [ok |-> ac.ok /\ vc.ok /\ pr.ok,
         val |-> [acodec |-> ac.val, vcodec |-> vc.val, protocol |-> pr.val]]

\* Option<Vec<Format>>: a missing key and null are None, an array is read
\* element by element, in source order
DeOptVecFormat(arr) ==
    CASE arr.k = "absent" -> [ok |-> TRUE, some |-> FALSE, a |-> <<>>]
      [] arr.k = "null" -> [ok |-> TRUE, some |-> FALSE, a |-> <<>>]
      [] OTHER ->
            [ok |-> \A i \in 1..Len(arr.a) : DeFormat(arr.a[i]).ok,
             some |-> TRUE,
             a |-> [i \in 1..Len(arr.a) |-> DeFormat(arr.a[i]).val]]

\* struct Fragment
DeFragment(o) ==
    LET du == DeOptValue(o.duration)
        url == DeOptString(o.url)
    IN  [ok |-> du.ok /\ url.ok,
         val |-> [duration |-> du.val, url |-> url.val]]

\* Option<Vec<Fragment>>: a missing key and null are None, an array is read
\* element by element, in source order
DeOptVecFragment(arr) ==
    CASE arr.k = "absent" -> [ok |-> TRUE, some |-> FALSE, a |-> <<>>]
      [] arr.k = "null" -> [ok |-> TRUE, some |-> FALSE, a |-> <<>>]
      [] OTHER ->
            [ok |-> \A i \in 1..Len(arr.a) : DeFragment(arr.a[i]).ok,
             some |-> TRUE,
             a |-> [i \in 1..Len(arr.a) |-> DeFragment(arr.a[i]).val]]

DefaultSingleVideo ==
    [id |-> "", title |-> "", acodec |-> None, vcodec |-> None,
     protocol |-> None, duration |-> None,
     formats |-> [some |-> FALSE, a |-> <<>>],
     average_rating |-> None, playlist_index |-> None,
     fragments |-> [some |-> FALSE, a |-> <<>>]]

\* struct SingleVideo: id and title are String, the rest Option
DeSingleVideo(v) ==
    LET id == DeString(v.id)
        ti == DeString(v.title)
        ac == DeOptString(v.acodec)
        vc == DeOptString(v.vcodec)
        pr == DeOptProtocol(v.protocol)
        du == DeOptValue(v.duration)
        fo == DeOptVecFormat(v.formats)
        ar == DeOptValue(v.average_rating)
        pi == DeOptValue(v.playlist_index)
        fr == DeOptVecFragment(v.fragments)
        good == /\ v.k = "obj"
                /\ id.ok /\ ti.ok /\ ac.ok /\ vc.ok /\ pr.ok /\ du.ok /\ fo.ok
                /\ ar.ok /\ pi.ok /\ fr.ok
    IN  [ok |-> good,
         val |-> IF good
                 THEN [id |-> id.val.s, title |-> ti.val.s,
                       acodec |-> ac.val, vcodec |-> vc.val,
                       protocol |-> pr.val, duration |-> du.val,
                       formats |-> [some |-> fo.some, a |-> fo.a],
                       average_rating |-> ar.val, playlist_index |-> pi.val,
                       fragments |-> [some |-> fr.some, a |-> fr.a]]
                 ELSE DefaultSingleVideo]

DefaultPlaylist ==
    [id |-> None, title |-> None, entries |-> [some |-> FALSE, a |-> <<>>]]

\* Option<Vec<SingleVideo>>: a missing key and null are None, an array is
\* read element by element, in source order
DeOptVecSingleVideo(arr) ==
    CASE arr.k = "absent" -> [ok |-> TRUE, some |-> FALSE, a |-> <<>>]
      [] arr.k = "null" -> [ok |-> TRUE, some |-> FALSE, a |-> <<>>]
      [] OTHER ->
            [ok |-> \A i \in 1..Len(arr.a) : DeSingleVideo(arr.a[i]).ok,
             some |-> TRUE,
             a |-> [i \in 1..Len(arr.a) |-> DeSingleVideo(arr.a[i]).val]]

\* DePlaylist collecting the entries back to front
DePlaylist_reversed(v) ==
    LET id == DeOptString(v.id)
        ti == DeOptString(v.title)
        en == DeOptVecSingleVideo(v.entries)
        good == v.k = "obj" /\ id.ok /\ ti.ok /\ en.ok
    IN  [ok |-> good,
         val |-> IF good
                 THEN [id |-> id.val, title |-> ti.val,
                       entries |->
                           [some |-> en.some,
                            a |-> [i \in 1..Len(en.a) |->
                                      en.a[Len(en.a) + 1 - i]]]]
                 ELSE DefaultPlaylist]

\* struct Playlist: every field is an Option
DePlaylist(v) ==
    LET id == DeOptString(v.id)
        ti == DeOptString(v.title)
        en == DeOptVecSingleVideo(v.entries)
        good == v.k = "obj" /\ id.ok /\ ti.ok /\ en.ok
    IN  [ok |-> good,
         val |-> IF good
                 THEN [id |-> id.val, title |-> ti.val,
                       entries |-> [some |-> en.some, a |-> en.a]]
                 ELSE DefaultPlaylist]

(***************************************************************************)
(* Bytes of a stream.  A token is white space, a complete JSON document    *)
(* (carrying the value it is the text of), or bytes that are no JSON.      *)
(***************************************************************************)
Ws == [t |-> "ws", v |-> NullValue]
Bad == [t |-> "bad", v |-> NullValue]
DocTok(v) == [t |-> "doc", v |-> v]

\* the bytes without their white space
RECURSIVE Significant(_)
Significant(bytes) ==
    IF bytes = <<>> THEN <<>>
    ELSE IF Head(bytes).t = "ws" THEN Significant(Tail(bytes))
    ELSE <<Head(bytes)>> \o Significant(Tail(bytes))

\* serde_json::from_reader into Value: exactly one document, white space
\* around it allowed; no input, other bytes, or trailing bytes are an error,
\* whose serde_json category is Eof when the input ended where a value was
\* expected and Syntax otherwise
from_reader(bytes) ==
    LET sig == Significant(bytes)
    IN  IF Len(sig) = 1 /\ sig[1].t = "doc"
        THEN [ok |-> TRUE, value |-> sig[1].v, err |-> "none"]
        ELSE [ok |-> FALSE, value |-> NullValue,
              err |-> IF sig = <<>> THEN "eof" ELSE "syntax"]

\* Index<&str> of Value: Null unless an object that has the key
IndexType(v) ==
    IF v.k = "obj" /\ v.type_.k # "absent" THEN v.type_ ELSE Null

JsonErr(kind) ==
    [ok |-> FALSE, err |-> kind, variant |-> "none",
     video |-> DefaultSingleVideo, playlist |-> DefaultPlaylist]

\* ErrorOf wrapping a new error made of the message of the first
ErrorOf_custom(o) ==
    [variant |-> IF o.ok THEN "none" ELSE "Json",
     category |-> IF o.ok THEN "none" ELSE "data"]

\* the crate Error of a failed result: From<serde_json::Error> wraps every
\* serde_json error, unchanged, in the one variant Error::Json
ErrorOf(o) ==
    [variant |-> IF o.ok THEN "none" ELSE "Json", category |-> o.err]

\* is_playlist testing only that `_type` is a string
is_playlist_any_string(value) == IndexType(value).k = "str"

\* value["_type"] == json!("playlist")
is_playlist(value) == IndexType(value) = Str("playlist")

\* YoutubeDl::process_json_output
process_json_output(bytes) ==
    LET parsed == from_reader(bytes)
        value == parsed.value
    IN  IF ~parsed.ok THEN JsonErr(parsed.err)
        ELSE IF is_playlist(value)
        THEN LET p == DePlaylist(value)
             IN  IF p.ok
                 THEN [ok |-> TRUE, err |-> "none", variant |-> "Playlist",
                       video |-> DefaultSingleVideo, playlist |-> p.val]
                 ELSE JsonErr("data")
        ELSE LET s == DeSingleVideo(value)
             IN  IF s.ok
                 THEN [ok |-> TRUE, err |-> "none", variant |-> "SingleVideo",
                       video |-> s.val, playlist |-> DefaultPlaylist]
                 ELSE JsonErr("data")

\* into_single_video with one arm for both variants
into_single_video_any(o) == [some |-> TRUE, val |-> o.video]

\* YoutubeDlOutput::into_single_video: Some for the SingleVideo variant
into_single_video(o) ==
    IF o.variant = "SingleVideo"
    THEN [some |-> TRUE, val |-> o.video]
    ELSE [some |-> FALSE, val |-> DefaultSingleVideo]

\* YoutubeDlOutput::into_playlist: Some for the Playlist variant
into_playlist(o) ==
    IF o.variant = "Playlist"
    THEN [some |-> TRUE, val |-> o.playlist]
    ELSE [some |-> FALSE, val |-> DefaultPlaylist]

(***************************************************************************)
(* Documents of the model.                                                 *)
(***************************************************************************)
\* a media item with the two required fields and nothing else
VideoDoc ==
    Obj(Absent, Str("a"), Str("t"), Absent, Absent, Absent, Absent, NoArr,
        NoArr)

\* a playlist of two media items
PlaylistDoc ==
    Obj(Str("playlist"), Str("p"), Absent, Absent, Absent, Absent, Absent,
        NoArr,
        Arr(<<VideoDoc, [VideoDoc EXCEPT !.id = Str("b")]>>))

\* n white space tokens
Pad(n) == [i \in 1..n |-> Ws]

\* what a child may write to standard output: nothing, a media item followed
\* by more white space than a pipe holds, a playlist, or bytes that are no
\* JSON
StdoutScripts ==
    { <<>>, <<DocTok(VideoDoc)>> \o Pad(PipeCap), <<DocTok(PlaylistDoc)>>,
      <<Bad>> }

\* the byte 0xff, which no UTF-8 text contains
InvalidByte == "<ff>"

\* what a child may write to standard error: nothing, one message, more
\* messages than a pipe holds, or a message followed by an invalid byte
StderrScripts ==
    { <<>>, <<"ERROR: video unavailable">>,
      [i \in 1..(PipeCap + 1) |-> "WARNING"],
      <<"ERROR: video unavailable", InvalidByte>> }

\* std::process::ExitStatus: exited with a code, or ended by a signal
ExitStatuses ==
    { [sig |-> FALSE, code |-> 0], [sig |-> FALSE, code |-> 2],
      [sig |-> TRUE, code |-> 0] }

\* a child: what it writes to each stream and the status it exits with
Scripts == [out : StdoutScripts, err : StderrScripts, status : ExitStatuses]

\* ExitStatus::success
success(st) == ~st.sig /\ st.code = 0

\* code_or_1 with the two cases exchanged
code_or_1_swapped(st) == IF st.sig THEN st.code ELSE 1

\* ExitStatus::code().unwrap_or(1)
code_or_1(st) == IF st.sig THEN 1 ELSE st.code

\* String::from_utf8(stderr).unwrap_or_default(): the text when every byte
\* is valid, the empty string otherwise
from_utf8_or_default(bytes) ==
    IF \E i \in 1..Len(bytes) : bytes[i] = InvalidByte THEN <<>> ELSE bytes

NoTimeout == [some |-> FALSE, d |-> 0]
Timeouts == {NoTimeout} \cup {[some |-> TRUE, d |-> d] : d \in 1..MaxTimeout}

Ops == {"run", "run_raw", "download_to"}
Modes == {"sync", "async"}

(***************************************************************************)
(* Search options (SearchType, SearchOptions).                             *)
(***************************************************************************)
\* enum SearchType; name is the String of Custom
SearchType(tag, name) == [tag |-> tag, name |-> name]
NoSearchType == SearchType("none", "")

Queries == {"", "rust", "a:b 1"}
CustomNames == {"", "bilisearch"}

\* SearchType's Display with the arms of Yahoo and Youtube exchanged
SearchTypeDisplay_swapped(t) ==
    CASE t.tag = "Yahoo" -> "ytsearch"
      [] t.tag = "Youtube" -> "yvsearch"
      [] t.tag = "Google" -> "gvsearch"
      [] t.tag = "SoundCloud" -> "scsearch"
      [] t.tag = "Custom" -> t.name

\* impl fmt::Display for SearchType
SearchTypeDisplay(t) ==
    CASE t.tag = "Yahoo" -> "yvsearch"
      [] t.tag = "Youtube" -> "ytsearch"
      [] t.tag = "Google" -> "gvsearch"
      [] t.tag = "SoundCloud" -> "scsearch"
      [] t.tag = "Custom" -> t.name

\* struct SearchOptions
SearchOptions(t, n, q) == [search_type |-> t, count |-> n, query |-> q]
NoSearchOptions == SearchOptions(NoSearchType, 0, "")

\* the constructors: count is 1
youtube(q) == SearchOptions(SearchType("Youtube", ""), 1, q)
google(q) == SearchOptions(SearchType("Google", ""), 1, q)
yahoo(q) == SearchOptions(SearchType("Yahoo", ""), 1, q)
soundcloud(q) == SearchOptions(SearchType("SoundCloud", ""), 1, q)
custom(name, q) == SearchOptions(SearchType("Custom", name), 1, q)

\* SearchOptions::with_count
with_count(self, count) ==
    SearchOptions(self.search_type, count, self.query)

\* impl fmt::Display for SearchOptions: "{}{}:{}"; the count is a usize,
\* written in decimal
SearchOptionsDisplay(o) ==
    SearchTypeDisplay(o.search_type) \o ToString(o.count) \o ":" \o o.query

\* YoutubeDl::search_for: the url of YoutubeDl::new(options.to_string())
search_for(options) == SearchOptionsDisplay(options)

(***************************************************************************)
(* The release fetcher (downloader.rs): platform, release, filesystem.     *)
(***************************************************************************)
Platforms == {"unix", "windows"}

\* const FILE_NAME under cfg!(target_os = "windows") and otherwise
FILE_NAME(os) == IF os = "windows" THEN "yt-dlp.exe" ELSE "yt-dlp"

AssetNames == {"yt-dlp", "yt-dlp.exe", "yt-dlp_linux"}

\* the assets arrays of a latest-release response: GithubAsset values, the
\* i-th with a browser_download_url of its own
AssetLists ==
    { [i \in 1..Len(ns) |->
          [name |-> ns[i], browser_download_url |-> "asset" \o ToString(i)]] :
        ns \in UNION {[1..m -> AssetNames] : m \in 0..MaxAssets} }

\* the indices of the assets named FILE_NAME
Matching(as, os) == {i \in 1..Len(as) : as[i].name = FILE_NAME(os)}

\* find returning the last match
find_last(S) == CHOOSE i \in S : \A j \in S : j <= i

\* Iterator::find: the first match
find(S) == CHOOSE i \in S : \A j \in S : i <= j

ReleasesLatest == "releases/latest"

\* the bodies of an asset response, as chunks
Bodies == { [i \in 1..n |-> "chunk" \o ToString(i)] : n \in 0..MaxChunks }

\* paths are sequences of components; <<>> is the current directory
Destinations == {<<>>, <<"bin">>, <<"bin", "tool">>}
join(path, name) == Append(path, name)
Parent(path) == SubSeq(path, 1, Len(path) - 1)
Prefixes(path) == {SubSeq(path, 1, n) : n \in 1..Len(path)}

\* the paths of the model's filesystem
FsPaths(os) ==
    (UNION {Prefixes(d) : d \in Destinations})
        \cup {join(d, FILE_NAME(os)) : d \in Destinations}

\* a node of the filesystem: nothing, a directory, or a file with its bytes
\* and its execute permission
NoNode == [kind |-> "none", bytes |-> <<>>, exec |-> FALSE]
DirNode == [kind |-> "dir", bytes |-> <<>>, exec |-> FALSE]
FileNode(bytes, exec) == [kind |-> "file", bytes |-> bytes, exec |-> exec]
\* a file that was there before the call
OldFile == FileNode(<<"old", "old", "old">>, FALSE)

\* every node but the current directory has a directory as its parent
WellFormed(f) ==
    \A p \in DOMAIN f :
        (f[p].kind # "none" /\ Len(p) > 1) => f[Parent(p)].kind = "dir"

InitialFs(os) ==
    { f \in [FsPaths(os) -> {NoNode, DirNode, OldFile}] : WellFormed(f) }

\* Path::exists, Path::is_file
exists(f, path) == path = <<>> \/ f[path].kind # "none"
is_file(f, path) == path # <<>> /\ f[path].kind = "file"

\* fs::create_dir_all: every missing prefix becomes a directory; an error,
\* with nothing created, when a prefix is a file
create_dir_all(f, path) ==
    IF \E q \in Prefixes(path) : f[q].kind = "file"
    THEN [ok |-> FALSE, fs |-> f]
    ELSE [ok |-> TRUE,
          fs |-> [q \in DOMAIN f |->
                     IF q \in Prefixes(path) /\ f[q].kind = "none"
                     THEN DirNode ELSE f[q]]]

\* create_file: on windows File::create (create or truncate); otherwise
\* OpenOptions read, write, create, mode 0o744 (an existing file keeps its
\* bytes and its mode); an error on a directory or under a missing parent
create_file(f, path, os) ==
    IF f[path].kind = "dir" \/ ~exists(f, Parent(path))
       \/ is_file(f, Parent(path))
    THEN [ok |-> FALSE, fs |-> f]
    ELSE IF f[path].kind = "file"
    THEN [ok |-> TRUE,
          fs |-> IF os = "windows"
                 THEN [f EXCEPT ![path].bytes = <<>>] ELSE f]
    ELSE [ok |-> TRUE,
          fs |-> [f EXCEPT ![path] = FileNode(<<>>, os # "windows")]]

\* write_all of one chunk at the cursor of the open file
write_all(bytes, cursor, chunk) ==
    IF cursor < Len(bytes)
    THEN [bytes EXCEPT ![cursor + 1] = chunk]
    ELSE Append(bytes, chunk)

\* the values of Result<PathBuf, Error>
NoFetch == [kind |-> "none", path |-> <<>>]
OkPath(path) == [kind |-> "Ok", path |-> path]
ErrFetch(kind) == [kind |-> kind, path |-> <<>>]

(***************************************************************************)
(* The builder (YoutubeDl) and its argument vector.  youtube_dl_path,      *)
(* process_timeout and debug are not read when the vector is built.        *)
(***************************************************************************)
\* Option<String>
NoneStr == [some |-> FALSE, s |-> ""]
SomeStr(x) == [some |-> TRUE, s |-> x]
\* Option<(String, String)>
NoAuth == [some |-> FALSE, user |-> "", password |-> ""]
SomeAuth(u, pw) == [some |-> TRUE, user |-> u, password |-> pw]

\* the fields of YoutubeDl of type Option<String> and of type bool
StringOptions ==
    {"format", "socket_timeout", "cookies", "user_agent", "referer",
     "date_before", "date_after", "date", "playlist_items",
     "output_template", "output_directory"}
BoolOptions ==
    {"flat_playlist", "all_formats", "playlist_reverse", "extract_audio",
     "ignore_errors"}

Urls == {"https://a", "ytsearch2:b"}
ExtraArgValues == {"--write-subs", "-v"}

\* YoutubeDl::new(url)
new(url) ==
    [format |-> NoneStr, flat_playlist |-> FALSE, socket_timeout |-> NoneStr,
     all_formats |-> FALSE, auth |-> NoAuth, cookies |-> NoneStr,
     user_agent |-> NoneStr, referer |-> NoneStr, url |-> url,
     playlist_reverse |-> FALSE, date_before |-> NoneStr,
     date_after |-> NoneStr, date |-> NoneStr, extract_audio |-> FALSE,
     playlist_items |-> NoneStr, extra_args |-> <<>>,
     output_template |-> NoneStr, output_directory |-> NoneStr,
     ignore_errors |-> FALSE]

\* the setter of one field: self.field = arg
setter(self, field, arg) == [self EXCEPT ![field] = arg]

\* extra_arg(arg): self.extra_args.push(arg)
extra_arg(self, arg) == [self EXCEPT !.extra_args = Append(@, arg)]

\* if let Some(x) = &self.field { args.push(flag); args.push(x) }
push_some(flag, o) == IF o.some THEN <<flag, o.s>> ELSE <<>>
\* if self.field { args.push(flag) }
push_if(flag, b) == IF b THEN <<flag>> ELSE <<>>

common_args(self) ==
    push_some("-f", self.format)
    \o push_if("--flat-playlist", self.flat_playlist)
    \o push_some("--socket-timeout", self.socket_timeout)
    \o push_if("--all-formats", self.all_formats)
    \o (IF self.auth.some
        THEN <<"-u", self.auth.user, "-p", self.auth.password>>
        ELSE <<>>)
    \o push_some("--cookies", self.cookies)
    \o push_some("--user-agent", self.user_agent)
    \o push_some("--referer", self.referer)
    \o push_if("--extract-audio", self.extract_audio)
    \o push_some("--playlist-items", self.playlist_items)
    \o push_some("-o", self.output_template)
    \o push_some("-P", self.output_directory)
    \o push_some("--date", self.date)
    \o push_some("--dateafter", self.date_after)
    \o push_some("--datebefore", self.date_before)
    \o push_if("--ignore-errors", self.ignore_errors)
    \o self.extra_args

process_args(self) ==
    common_args(self)
    \o push_some("-P", self.output_directory)
    \o <<"-J", self.url>>

(***************************************************************************)
(* State.                                                                  *)
(***************************************************************************)
VARIABLES
    op,              \* the operation called on the builder
    mode,            \* blocking ("sync") or tokio ("async") twin
    process_timeout, \* YoutubeDl.process_timeout
    ignore_errors,   \* YoutubeDl.ignore_errors
    spawn_ok,        \* whether the executable at path() can be spawned
    outRem,          \* what the child has still to write to stdout
    errRem,          \* what the child has still to write to stderr
    script,          \* the child's program: [out, err, status]
    child,           \* "none", "running", "exited", "reaped", "killed"
    stdoutOpen,      \* the child holds the write end of its stdout pipe
    outBuf,          \* content of the stdout pipe
    errBuf,          \* content of the stderr pipe
    stdout,          \* the Vec the caller copies stdout into
    stderr,          \* the Vec the caller reads stderr into
    exit_code,       \* the status the caller's wait returned
    now,             \* the clock, 0 when the call starts
    waitStart,       \* the instant the caller's wait began
    ranPast,         \* the child was running when the clock passed the timeout
    pc,              \* the caller's position
    result,          \* what the call returned
    jphase,          \* deserializer run: "in", "out"
    jin,             \* deserializer run: the bytes handed to it
    jout,            \* deserializer run: the value it returned
    jsv,             \* deserializer run: what into_single_video returned
    jpl,             \* deserializer run: what into_playlist returned
    sphase,          \* search: "none", "options", "searched"
    sopts,           \* search: the SearchOptions value
    sgiven,          \* search: what the caller passed to build sopts
    surl,            \* search: the url of the builder search_for returned
    platform,        \* fetcher: the target_os of the build
    destination,     \* fetcher: the path passed to download
    fs0,             \* fetcher: the filesystem before the call
    fs,              \* fetcher: the filesystem
    dpc,             \* fetcher: the position of download
    assets,          \* fetcher: the assets of the latest release
    release,         \* fetcher: the url find_newest_release returned
    dpath,           \* fetcher: the path of the opened file
    requests,        \* fetcher: the urls requested so far
    dbody,           \* fetcher: the chunks of the asset still to come
    dfail,           \* fetcher: the asset response ends in an error
    builder,         \* arguments: the YoutubeDl value
    args,            \* arguments: the vector process_args returned last
    args0,           \* arguments: the vector process_args returned first
    runs,            \* arguments: the calls of process_args so far
    dgot,            \* fetcher: the chunks written so far
    dresult          \* fetcher: what download returned

procVars ==
    <<op, mode, process_timeout, ignore_errors, spawn_ok, script, outRem,
      errRem, child, stdoutOpen, outBuf, errBuf, stdout, stderr,
      exit_code, now, waitStart, ranPast, pc, result>>
jsonVars == <<jphase, jin, jout, jsv, jpl>>
searchVars == <<sphase, sopts, sgiven, surl>>
fetchVars ==
    <<platform, destination, fs0, fs, dpc, assets, release, dpath, requests,
      dbody, dfail, dgot, dresult>>
\* everything outside the process execution protocol
argVars == <<builder, args, args0, runs>>
restVars == <<jsonVars, searchVars, fetchVars, argVars>>
vars == <<procVars, restVars>>

NoJson == JsonErr("none")

\* the values of Result<_, Error>
NoResult ==
    [kind |-> "none", code |-> 0, stderr |-> <<>>, out |-> NoJson,
     raw |-> NullValue]
ErrIo == [NoResult EXCEPT !.kind = "Io"]
ErrJson == [NoResult EXCEPT !.kind = "Json"]
ErrProcessTimeout == [NoResult EXCEPT !.kind = "ProcessTimeout"]
ErrExitCode(c, text) ==
    [NoResult EXCEPT !.kind = "ExitCode", !.code = c, !.stderr = text]
OkOutput(o) == [NoResult EXCEPT !.kind = "Ok", !.out = o]
OkRaw(v) == [NoResult EXCEPT !.kind = "Ok", !.raw = v]
OkUnit == [NoResult EXCEPT !.kind = "Ok"]

ProcIdle ==
    /\ child = "none" /\ stdoutOpen = FALSE
    /\ outBuf = <<>> /\ errBuf = <<>> /\ stdout = <<>> /\ stderr = <<>>
    /\ exit_code = [sig |-> FALSE, code |-> 0]
    /\ now = 0 /\ waitStart = 0 /\ ranPast = FALSE
    /\ result = NoResult

\* a projection that was not called
NoSingleVideo == [called |-> FALSE, some |-> FALSE, val |-> DefaultSingleVideo]
NoPlaylist == [called |-> FALSE, some |-> FALSE, val |-> DefaultPlaylist]

JsonIdle ==
    /\ jphase = "idle" /\ jin = <<>> /\ jout = NoJson
    /\ jsv = NoSingleVideo /\ jpl = NoPlaylist

SearchIdle ==
    /\ sphase = "idle" /\ sopts = NoSearchOptions
    /\ sgiven = [search_type |-> NoSearchType, query |-> "", counted |-> FALSE,
                 count |-> 0]
    /\ surl = ""

FetchIdle ==
    /\ platform = "unix" /\ destination = <<>>
    /\ fs0 = [p \in FsPaths("unix") |-> NoNode] /\ fs = fs0
    /\ dpc = "idle" /\ assets = <<>> /\ release = "" /\ dpath = <<>>
    /\ requests = <<>> /\ dbody = <<>> /\ dfail = FALSE /\ dgot = <<>>
    /\ dresult = NoFetch

ArgsIdle ==
    /\ builder = new("") /\ args = <<>> /\ args0 = <<>> /\ runs = 0

\* a builder with its options set, and a child behaviour, before the call
Init ==
    /\ op \in Ops
    /\ mode \in Modes
    /\ process_timeout \in Timeouts
    /\ ignore_errors \in BOOLEAN
    /\ spawn_ok \in BOOLEAN
    /\ script \in Scripts
    /\ outRem = script.out
    /\ errRem = script.err
    /\ pc = "start"
    /\ ProcIdle
    /\ JsonIdle
    /\ SearchIdle
    /\ FetchIdle
    /\ ArgsIdle

configVars == <<op, mode, process_timeout, ignore_errors, spawn_ok, script>>

(***************************************************************************)
(* The caller in sync mode: run_process and the operation on top.          *)
(***************************************************************************)
\* Command::spawn succeeds: the child runs with both pipes open
Spawn ==
    /\ mode = "sync" /\ pc = "start" /\ spawn_ok
    /\ child' = "running" /\ stdoutOpen' = TRUE
    /\ pc' = "copy"
    /\ UNCHANGED <<configVars, outRem, errRem, outBuf, errBuf, stdout, stderr,
                   exit_code, now, waitStart, ranPast, result, restVars>>

\* SpawnFail that goes on to read the pipe of a child that does not exist
SpawnFail_unchecked ==
    /\ mode = "sync" /\ pc = "start" /\ ~spawn_ok
    /\ pc' = "copy"
    /\ UNCHANGED <<configVars, outRem, errRem, child, stdoutOpen, outBuf,
                   errBuf, stdout, stderr, exit_code, now, waitStart, ranPast,
                   result, restVars>>

\* Command::spawn fails: `?` returns Error::Io
SpawnFail ==
    /\ mode = "sync" /\ pc = "start" /\ ~spawn_ok
    /\ result' = ErrIo
    /\ pc' = "done"
    /\ UNCHANGED <<configVars, outRem, errRem, child, stdoutOpen, outBuf,
                   errBuf, stdout, stderr, exit_code, now, waitStart, ranPast,
                   restVars>>

\* io::copy: a read of the stdout pipe returns what the pipe holds
CopyRead ==
    /\ mode = "sync" /\ pc = "copy" /\ outBuf # <<>>
    /\ stdout' = stdout \o outBuf
    /\ outBuf' = <<>>
    /\ UNCHANGED <<configVars, outRem, errRem, child, stdoutOpen, errBuf,
                   stderr, exit_code, now, waitStart, ranPast, pc, result,
                   restVars>>

\* io::copy: end of file, no writer is left; the wait begins
CopyEof ==
    /\ mode = "sync" /\ pc = "copy" /\ outBuf = <<>> /\ ~stdoutOpen
    /\ pc' = "wait"
    /\ waitStart' = now
    /\ UNCHANGED <<configVars, outRem, errRem, child, stdoutOpen, outBuf,
                   errBuf, stdout, stderr, exit_code, now, ranPast, result,
                   restVars>>

\* TimeoutDue that does not look whether a timeout is configured
TimeoutDue_unconfigured ==
    now - waitStart >= process_timeout.d

\* the timeout of wait_timeout / tokio::time::timeout has elapsed
TimeoutDue ==
    process_timeout.some /\ now - waitStart >= process_timeout.d

\* wait / wait_timeout returns the status of the child
WaitExit ==
    /\ mode = "sync" /\ pc = "wait" /\ child = "exited"
    /\ exit_code' = script.status
    /\ child' = "reaped"
    /\ pc' = "stderr"
    /\ UNCHANGED <<configVars, outRem, errRem, stdoutOpen, outBuf, errBuf,
                   stdout, stderr, now, waitStart, ranPast, result, restVars>>

\* the timeout elapsed first: child.kill(), Err(Error::ProcessTimeout)
WaitTimeout ==
    /\ mode = "sync" /\ pc = "wait" /\ child = "running" /\ TimeoutDue
    /\ child' = "killed" /\ stdoutOpen' = FALSE
    /\ result' = ErrProcessTimeout
    /\ pc' = "done"
    /\ UNCHANGED <<configVars, outRem, errRem, outBuf, errBuf, stdout, stderr,
                   exit_code, now, waitStart, ranPast, restVars>>

\* read_to_end of the stderr pipe of the child that has exited
ReadStderr ==
    /\ mode = "sync" /\ pc = "stderr"
    /\ stderr' = errBuf
    /\ errBuf' = <<>>
    /\ pc' = "return"
    /\ UNCHANGED <<configVars, outRem, errRem, child, stdoutOpen, outBuf,
                   stdout, exit_code, now, waitStart, ranPast, result,
                   restVars>>

\* run without the test of ignore_errors
run_without_ignore(so, se, st, ignore) ==
    IF success(st)
    THEN LET o == process_json_output(so)
         IN  IF o.ok THEN OkOutput(o) ELSE ErrJson
    ELSE ErrExitCode(code_or_1(st), from_utf8_or_default(se))

\* the Result of run from a ProcessResult
run(so, se, st, ignore) ==
    IF success(st) \/ ignore
    THEN LET o == process_json_output(so)
         IN  IF o.ok THEN OkOutput(o) ELSE ErrJson
    ELSE ErrExitCode(code_or_1(st), from_utf8_or_default(se))

\* the Result of run_raw from a ProcessResult
run_raw(so, se, st, ignore) ==
    IF success(st) \/ ignore
    THEN LET v == from_reader(so)
         IN  IF v.ok THEN OkRaw(v.value) ELSE ErrJson
    ELSE ErrExitCode(code_or_1(st), from_utf8_or_default(se))

\* the Result of download_to from a ProcessResult
download_to(so, se, st, ignore) == OkUnit

\* run after run_process returned Ok
RunReturn ==
    /\ mode = "sync" /\ pc = "return" /\ op = "run"
    /\ result' = run(stdout, stderr, exit_code, ignore_errors)
    /\ pc' = "done"
    /\ UNCHANGED <<configVars, outRem, errRem, child, stdoutOpen, outBuf,
                   errBuf, stdout, stderr, exit_code, now, waitStart, ranPast,
                   restVars>>

\* run_raw after run_process returned Ok
RunRawReturn ==
    /\ mode = "sync" /\ pc = "return" /\ op = "run_raw"
    /\ result' = run_raw(stdout, stderr, exit_code, ignore_errors)
    /\ pc' = "done"
    /\ UNCHANGED <<configVars, outRem, errRem, child, stdoutOpen, outBuf,
                   errBuf, stdout, stderr, exit_code, now, waitStart, ranPast,
                   restVars>>

\* download_to after run_process returned Ok
DownloadReturn ==
    /\ mode = "sync" /\ pc = "return" /\ op = "download_to"
    /\ result' = download_to(stdout, stderr, exit_code, ignore_errors)
    /\ pc' = "done"
    /\ UNCHANGED <<configVars, outRem, errRem, child, stdoutOpen, outBuf,
                   errBuf, stdout, stderr, exit_code, now, waitStart, ranPast,
                   restVars>>

(***************************************************************************)
(* The caller in async mode: run_process_async and the operation on top.   *)
(***************************************************************************)
\* the Result of run_async from a ProcessResult
run_async(so, se, st, ignore) ==
    IF success(st) \/ ignore
    THEN LET o == process_json_output(so)
         IN  IF o.ok THEN OkOutput(o) ELSE ErrJson
    ELSE ErrExitCode(code_or_1(st), from_utf8_or_default(se))

\* the Result of run_raw_async from a ProcessResult
run_raw_async(so, se, st, ignore) ==
    IF success(st) \/ ignore
    THEN LET v == from_reader(so)
         IN  IF v.ok THEN OkRaw(v.value) ELSE ErrJson
    ELSE ErrExitCode(code_or_1(st), from_utf8_or_default(se))

\* the Result of download_to_async from a ProcessResult
download_to_async(so, se, st, ignore) == OkUnit

\* tokio Command::spawn succeeds: the child runs with both pipes open
SpawnAsync ==
    /\ mode = "async" /\ pc = "start" /\ spawn_ok
    /\ child' = "running" /\ stdoutOpen' = TRUE
    /\ pc' = "copy"
    /\ UNCHANGED <<configVars, outRem, errRem, outBuf, errBuf, stdout, stderr,
                   exit_code, now, waitStart, ranPast, result, restVars>>

\* tokio Command::spawn fails: `?` returns Error::Io
SpawnFailAsync ==
    /\ mode = "async" /\ pc = "start" /\ ~spawn_ok
    /\ result' = ErrIo
    /\ pc' = "done"
    /\ UNCHANGED <<configVars, outRem, errRem, child, stdoutOpen, outBuf,
                   errBuf, stdout, stderr, exit_code, now, waitStart, ranPast,
                   restVars>>

\* tokio::io::copy: a read of the stdout pipe returns what the pipe holds
CopyReadAsync ==
    /\ mode = "async" /\ pc = "copy" /\ outBuf # <<>>
    /\ stdout' = stdout \o outBuf
    /\ outBuf' = <<>>
    /\ UNCHANGED <<configVars, outRem, errRem, child, stdoutOpen, errBuf,
                   stderr, exit_code, now, waitStart, ranPast, pc, result,
                   restVars>>

\* tokio::io::copy: end of file, no writer is left; the wait begins
CopyEofAsync ==
    /\ mode = "async" /\ pc = "copy" /\ outBuf = <<>> /\ ~stdoutOpen
    /\ pc' = "wait"
    /\ waitStart' = now
    /\ UNCHANGED <<configVars, outRem, errRem, child, stdoutOpen, outBuf,
                   errBuf, stdout, stderr, exit_code, now, ranPast, result,
                   restVars>>

\* child.wait().await / timeout(dur, child.wait()).await returns the status
WaitExitAsync ==
    /\ mode = "async" /\ pc = "wait" /\ child = "exited"
    /\ exit_code' = script.status
    /\ child' = "reaped"
    /\ pc' = "stderr"
    /\ UNCHANGED <<configVars, outRem, errRem, stdoutOpen, outBuf, errBuf,
                   stdout, stderr, now, waitStart, ranPast, result, restVars>>

\* WaitTimeoutAsync that returns without child.kill().await
WaitTimeoutAsync_no_kill ==
    /\ mode = "async" /\ pc = "wait" /\ child = "running" /\ TimeoutDue
    /\ result' = ErrProcessTimeout
    /\ pc' = "done"
    /\ UNCHANGED <<configVars, outRem, errRem, child, stdoutOpen, outBuf,
                   errBuf, stdout, stderr, exit_code, now, waitStart, ranPast,
                   restVars>>

\* the timeout elapsed first: child.kill().await, Err(Error::ProcessTimeout)
WaitTimeoutAsync ==
    /\ mode = "async" /\ pc = "wait" /\ child = "running" /\ TimeoutDue
    /\ child' = "killed" /\ stdoutOpen' = FALSE
    /\ result' = ErrProcessTimeout
    /\ pc' = "done"
    /\ UNCHANGED <<configVars, outRem, errRem, outBuf, errBuf, stdout, stderr,
                   exit_code, now, waitStart, ranPast, restVars>>

\* read_to_end(..).await of the stderr pipe of the child that has exited
ReadStderrAsync ==
    /\ mode = "async" /\ pc = "stderr"
    /\ stderr' = errBuf
    /\ errBuf' = <<>>
    /\ pc' = "return"
    /\ UNCHANGED <<configVars, outRem, errRem, child, stdoutOpen, outBuf,
                   stdout, exit_code, now, waitStart, ranPast, result,
                   restVars>>

\* run_async after run_process_async returned Ok
RunReturnAsync ==
    /\ mode = "async" /\ pc = "return" /\ op = "run"
    /\ result' = run_async(stdout, stderr, exit_code, ignore_errors)
    /\ pc' = "done"
    /\ UNCHANGED <<configVars, outRem, errRem, child, stdoutOpen, outBuf,
                   errBuf, stdout, stderr, exit_code, now, waitStart, ranPast,
                   restVars>>

\* run_raw_async after run_process_async returned Ok
RunRawReturnAsync ==
    /\ mode = "async" /\ pc = "return" /\ op = "run_raw"
    /\ result' = run_raw_async(stdout, stderr, exit_code, ignore_errors)
    /\ pc' = "done"
    /\ UNCHANGED <<configVars, outRem, errRem, child, stdoutOpen, outBuf,
                   errBuf, stdout, stderr, exit_code, now, waitStart, ranPast,
                   restVars>>

\* download_to_async after run_process_async returned Ok
DownloadReturnAsync ==
    /\ mode = "async" /\ pc = "return" /\ op = "download_to"
    /\ result' = download_to_async(stdout, stderr, exit_code, ignore_errors)
    /\ pc' = "done"
    /\ UNCHANGED <<configVars, outRem, errRem, child, stdoutOpen, outBuf,
                   errBuf, stdout, stderr, exit_code, now, waitStart, ranPast,
                   restVars>>

(***************************************************************************)
(* The child process and the clock.                                        *)
(***************************************************************************)
\* write(1, ..): blocks while the pipe is full
WriteStdout ==
    /\ child = "running" /\ stdoutOpen
    /\ outRem # <<>> /\ Len(outBuf) < PipeCap
    /\ outBuf' = Append(outBuf, Head(outRem))
    /\ outRem' = Tail(outRem)
    /\ UNCHANGED <<configVars, errRem, child, stdoutOpen, errBuf, stdout,
                   stderr, exit_code, now, waitStart, ranPast, pc, result,
                   restVars>>

\* write(2, ..): blocks while the pipe is full
WriteStderr ==
    /\ child = "running"
    /\ errRem # <<>> /\ Len(errBuf) < PipeCap
    /\ errBuf' = Append(errBuf, Head(errRem))
    /\ errRem' = Tail(errRem)
    /\ UNCHANGED <<configVars, outRem, child, stdoutOpen, outBuf, stdout,
                   stderr, exit_code, now, waitStart, ranPast, pc, result,
                   restVars>>

\* the child closes its stdout and keeps running
CloseStdout ==
    /\ child = "running" /\ stdoutOpen /\ outRem = <<>>
    /\ stdoutOpen' = FALSE
    /\ UNCHANGED <<configVars, outRem, errRem, child, outBuf, errBuf, stdout,
                   stderr, exit_code, now, waitStart, ranPast, pc, result,
                   restVars>>

\* the child exits once it has written everything; its pipe ends close
ChildExit ==
    /\ child = "running" /\ outRem = <<>> /\ errRem = <<>>
    /\ child' = "exited" /\ stdoutOpen' = FALSE
    /\ UNCHANGED <<configVars, outRem, errRem, outBuf, errBuf, stdout, stderr,
                   exit_code, now, waitStart, ranPast, pc, result, restVars>>

\* the caller cannot take a step: it is in a read of the empty stdout pipe
\* that still has a writer, or in a wait for the running child whose timeout
\* (if any) has not elapsed
CallerBlocked ==
    \/ pc = "copy" /\ outBuf = <<>> /\ stdoutOpen
    \/ pc = "wait" /\ child = "running" /\ ~TimeoutDue

\* time passes while the caller is blocked
Tick ==
    /\ CallerBlocked /\ now < MaxTime
    /\ now' = now + 1
    /\ ranPast' = (ranPast \/ (process_timeout.some /\ child = "running"
                                 /\ now = process_timeout.d))
    /\ UNCHANGED <<configVars, outRem, errRem, child, stdoutOpen, outBuf,
                   errBuf, stdout, stderr, exit_code, waitStart, pc, result,
                   restVars>>

Next ==
    \/ Spawn \/ SpawnFail \/ CopyRead \/ CopyEof \/ WaitExit \/ WaitTimeout
    \/ ReadStderr \/ RunReturn \/ RunRawReturn \/ DownloadReturn
    \/ SpawnAsync \/ SpawnFailAsync \/ CopyReadAsync \/ CopyEofAsync
    \/ WaitExitAsync \/ WaitTimeoutAsync \/ ReadStderrAsync \/ RunReturnAsync
    \/ RunRawReturnAsync \/ DownloadReturnAsync
    \/ WriteStdout \/ WriteStderr \/ CloseStdout \/ ChildExit \/ Tick

Spec == Init /\ [][Next]_vars

(***************************************************************************)
(* The deserializer on its own: process_json_output applied to the bytes   *)
(* of bounded sets of documents.                                           *)
(***************************************************************************)
\* sequences over S of length at most n
SeqUpTo(S, n) == UNION {[1..m -> S] : m \in 0..n}

\* values of `_type`
TypeVals == {Absent, Null, Str("playlist"), Str("video"), Num("1")}

\* objects that vary in their scalar keys
ScalarDocs ==
    { Obj(ty, id, ti, ac, vc, pr, Absent, NoArr, NoArr) :
        ty \in TypeVals,
        id \in {Absent, Null, Str("a"), Num("7")},
        ti \in {Absent, Null, Str("t")},
        ac \in {Absent, Null, Str("none"), Str("aac")},
        vc \in {Absent, Str("none")},
        pr \in {Absent, Str("http"), Str("some_unknown_protocol")} }

\* media items and playlists that vary in `protocol` and `duration`
ProtocolDocs ==
    { Obj(ty, Str("a"), Str("t"), Absent, Absent, pr, du, NoArr, NoArr) :
        ty \in {Absent, Str("playlist")},
        pr \in {Null, Num("1"), Str("HTTP")}
               \cup {Str(tag) : tag \in ProtocolTags},
        du \in {Absent, Null, Str("123.4"), Num("123.4")} }

FormatObjs ==
    { FormatObj(ac, vc, pr) :
        ac \in {Absent, Null, Str("none"), Str("opus")},
        vc \in {Str("none"), Str("vp9")},
        pr \in {Absent, Str("some_unknown_protocol")} }

\* objects that vary in `formats`
FormatDocs ==
    { Obj(ty, Str("a"), Str("t"), Absent, Absent, Absent, Absent, fo, NoArr) :
        ty \in {Absent, Str("playlist")},
        fo \in {NullArr} \cup {Arr(q) : q \in SeqUpTo(FormatObjs, MaxFormats)} }

\* elements of `entries`: media items that vary in `id`, `acodec` and
\* `formats`, and two that lack a title
EntryObjs ==
    { Obj(Absent, id, ti, ac, Absent, Absent, Absent, fo, NoArr) :
        id \in {Absent, Str("a"), Str("b")},
        ti \in {Str("t")},
        ac \in {Absent, Str("none")},
        fo \in {NoArr, Arr(<<FormatObj(Str("none"), Str("none"), Absent)>>)} }
      \cup { [VideoDoc EXCEPT !.title = ti] : ti \in {Absent, Null} }

\* objects that vary in `entries`
EntryDocs ==
    { Obj(ty, id, Absent, Absent, Absent, Absent, Absent, NoArr, en) :
        ty \in {Str("playlist")},
        id \in {Absent, Str("p"), Num("1")},
        en \in {NoArr, NullArr}
               \cup {Arr(q) : q \in SeqUpTo(EntryObjs, MaxEntries)} }

FragmentObjs ==
    { FragmentObj(du, Absent) : du \in {Absent, Str("1.5"), Num("1.5")} }
        \cup { FragmentObj(Num("2"), Num("0")) }

\* media items and playlists that vary in the keys read as any JSON value
\* and in `fragments`
ValueDocs ==
    { [VideoDoc EXCEPT !.type_ = ty, !.duration = du, !.average_rating = ar,
                       !.playlist_index = pi, !.fragments = fr] :
        ty \in {Absent, Str("playlist")},
        du \in {Absent, Str("123.4"), Num("123.4")},
        ar \in {Absent, Str("4.5"), Num("4.5")},
        pi \in {Absent, Null, Str("3"), Num("3")},
        fr \in {NullArr}
               \cup {Arr(q) : q \in SeqUpTo(FragmentObjs, MaxFragments)} }

\* the families of documents
DocFamilies ==
    <<ScalarDocs, ProtocolDocs, FormatDocs, EntryDocs, ValueDocs,
      {NullValue}>>

\* the bytes handed to the deserializer that are not one document
NoDocInputs ==
    { <<>>, <<Ws>>, <<Bad>>, <<Ws, DocTok(VideoDoc), Ws>>,
      <<DocTok(VideoDoc), Bad>>, <<DocTok(VideoDoc), DocTok(VideoDoc)>> }

JInit ==
    /\ jphase = "in"
    /\ \/ \E i \in DOMAIN DocFamilies :
              \E d \in DocFamilies[i] : jin = <<DocTok(d)>>
       \/ jin \in NoDocInputs
    /\ jout = NoJson
    /\ jsv = NoSingleVideo /\ jpl = NoPlaylist
    /\ op = "run" /\ mode = "sync" /\ process_timeout = NoTimeout
    /\ ignore_errors = FALSE /\ spawn_ok = TRUE
    /\ script = [out |-> <<>>, err |-> <<>>,
                 status |-> [sig |-> FALSE, code |-> 0]]
    /\ outRem = <<>> /\ errRem = <<>>
    /\ pc = "idle"
    /\ ProcIdle
    /\ SearchIdle
    /\ FetchIdle
    /\ ArgsIdle

\* process_json_output(stdout)
Deserialize ==
    /\ jphase = "in"
    /\ jout' = process_json_output(jin)
    /\ jphase' = "out"
    /\ UNCHANGED <<procVars, searchVars, fetchVars, argVars, jin, jsv, jpl>>

\* output.into_single_video() on the value that was returned
IntoSingleVideo ==
    /\ jphase = "out" /\ jout.ok /\ ~jsv.called
    /\ jsv' = [called |-> TRUE, some |-> into_single_video(jout).some,
               val |-> into_single_video(jout).val]
    /\ UNCHANGED <<procVars, searchVars, fetchVars, argVars,
                   jphase, jin, jout, jpl>>

\* output.into_playlist() on the value that was returned
IntoPlaylist ==
    /\ jphase = "out" /\ jout.ok /\ ~jpl.called
    /\ jpl' = [called |-> TRUE, some |-> into_playlist(jout).some,
               val |-> into_playlist(jout).val]
    /\ UNCHANGED <<procVars, searchVars, fetchVars, argVars,
                   jphase, jin, jout, jsv>>

JNext == Deserialize \/ IntoSingleVideo \/ IntoPlaylist

SpecJson == JInit /\ [][JNext]_vars

(***************************************************************************)
(* Searches: a SearchOptions value is constructed, with_count is applied   *)
(* any number of times, and search_for makes a builder of it.              *)
(***************************************************************************)
\* no call is made: the variables of the process execution protocol rest
ProcUnused ==
    /\ op = "run" /\ mode = "sync" /\ process_timeout = NoTimeout
    /\ ignore_errors = FALSE /\ spawn_ok = TRUE
    /\ script = [out |-> <<>>, err |-> <<>>,
                 status |-> [sig |-> FALSE, code |-> 0]]
    /\ outRem = <<>> /\ errRem = <<>>
    /\ pc = "idle"
    /\ ProcIdle

\* what the caller passed to a constructor
Given(t, q) ==
    [search_type |-> t, query |-> q, counted |-> FALSE, count |-> 0]

SInit ==
    /\ sphase = "none" /\ sopts = NoSearchOptions
    /\ sgiven = Given(NoSearchType, "") /\ surl = ""
    /\ ProcUnused /\ JsonIdle /\ FetchIdle /\ ArgsIdle

\* SearchOptions::youtube(query)
Youtube ==
    /\ sphase = "none"
    /\ \E q \in Queries :
          /\ sopts' = youtube(q)
          /\ sgiven' = Given(SearchType("Youtube", ""), q)
    /\ sphase' = "options"
    /\ UNCHANGED <<procVars, jsonVars, fetchVars, argVars, surl>>

\* SearchOptions::google(query)
Google ==
    /\ sphase = "none"
    /\ \E q \in Queries :
          /\ sopts' = google(q)
          /\ sgiven' = Given(SearchType("Google", ""), q)
    /\ sphase' = "options"
    /\ UNCHANGED <<procVars, jsonVars, fetchVars, argVars, surl>>

\* SearchOptions::yahoo(query)
Yahoo ==
    /\ sphase = "none"
    /\ \E q \in Queries :
          /\ sopts' = yahoo(q)
          /\ sgiven' = Given(SearchType("Yahoo", ""), q)
    /\ sphase' = "options"
    /\ UNCHANGED <<procVars, jsonVars, fetchVars, argVars, surl>>

\* SearchOptions::soundcloud(query)
SoundCloud ==
    /\ sphase = "none"
    /\ \E q \in Queries :
          /\ sopts' = soundcloud(q)
          /\ sgiven' = Given(SearchType("SoundCloud", ""), q)
    /\ sphase' = "options"
    /\ UNCHANGED <<procVars, jsonVars, fetchVars, argVars, surl>>

\* SearchOptions::custom(search_type, query)
Custom ==
    /\ sphase = "none"
    /\ \E name \in CustomNames, q \in Queries :
          /\ sopts' = custom(name, q)
          /\ sgiven' = Given(SearchType("Custom", name), q)
    /\ sphase' = "options"
    /\ UNCHANGED <<procVars, jsonVars, fetchVars, argVars, surl>>

\* options.with_count(count)
WithCount ==
    /\ sphase = "options"
    /\ \E n \in 0..MaxCount :
          /\ sopts' = with_count(sopts, n)
          /\ sgiven' = [sgiven EXCEPT !.counted = TRUE, !.count = n]
    /\ UNCHANGED <<procVars, jsonVars, fetchVars, argVars, sphase, surl>>

\* YoutubeDl::search_for(&options)
SearchFor ==
    /\ sphase = "options"
    /\ surl' = search_for(sopts)
    /\ sphase' = "searched"
    /\ UNCHANGED <<procVars, jsonVars, fetchVars, argVars, sopts, sgiven>>

SNext ==
    \/ Youtube \/ Google \/ Yahoo \/ SoundCloud \/ Custom \/ WithCount
    \/ SearchFor

SpecSearch == SInit /\ [][SNext]_vars

(***************************************************************************)
(* The release fetcher: YoutubeDlFetcher::download(destination) against a  *)
(* releases API and a filesystem.                                          *)
(***************************************************************************)
DInit ==
    /\ platform \in Platforms
    /\ destination \in Destinations
    /\ fs0 \in InitialFs(platform) /\ fs = fs0
    /\ dpc = "start" /\ assets = <<>> /\ release = "" /\ dpath = <<>>
    /\ requests = <<>> /\ dbody = <<>> /\ dfail = FALSE /\ dgot = <<>>
    /\ dresult = NoFetch
    /\ ProcUnused /\ JsonIdle /\ SearchIdle /\ ArgsIdle

\* find_newest_release on a response that arrived and was parsed: the url
\* of the first asset named FILE_NAME, Error::NoReleaseFound without one
FindNewestRelease ==
    /\ dpc = "start"
    /\ requests' = Append(requests, ReleasesLatest)
    /\ \E as \in AssetLists :
          /\ assets' = as
          /\ IF Matching(as, platform) = {}
             THEN /\ dresult' = ErrFetch("NoReleaseFound")
                  /\ release' = release
                  /\ dpc' = "done"
             ELSE /\ release' = as[find(Matching(as, platform))]
                                    .browser_download_url
                  /\ dresult' = dresult
                  /\ dpc' = "found"
    /\ UNCHANGED <<procVars, jsonVars, searchVars, argVars,
                   platform, destination, fs0,
                   fs, dpath, dbody, dfail, dgot>>

\* find_newest_release when the request fails (Error::Http) or the body is
\* not a GithubRelease (Error::Http from response.json, Error::Json from
\* serde_json::from_str under debug logging)
ReleaseRequestFails ==
    /\ dpc = "start"
    /\ requests' = Append(requests, ReleasesLatest)
    /\ \E kind \in {"Http", "Json"} : dresult' = ErrFetch(kind)
    /\ dpc' = "done"
    /\ UNCHANGED <<procVars, jsonVars, searchVars, argVars,
                   platform, destination, fs0,
                   fs, assets, release, dpath, dbody, dfail, dgot>>

\* the destination as download prepares it: created as a directory, with
\* its parents, when nothing exists at it
Prepared ==
    IF ~exists(fs, destination)
    THEN create_dir_all(fs, destination)
    ELSE [ok |-> TRUE, fs |-> fs]

\* the path download writes to: the destination when that is a file, else
\* FILE_NAME under it
Target ==
    IF is_file(Prepared.fs, destination)
    THEN destination
    ELSE join(destination, FILE_NAME(platform))

\* download from the exists test to create_file
OpenDestination ==
    /\ dpc = "found"
    /\ IF ~Prepared.ok
       THEN /\ dresult' = ErrFetch("Io") /\ dpc' = "done"
            /\ UNCHANGED <<fs, dpath>>
       ELSE LET opened == create_file(Prepared.fs, Target, platform)
            IN  IF ~opened.ok
                THEN /\ fs' = Prepared.fs
                     /\ dresult' = ErrFetch("Io") /\ dpc' = "done"
                     /\ dpath' = dpath
                ELSE /\ fs' = opened.fs
                     /\ dpath' = Target
                     /\ dresult' = dresult /\ dpc' = "opened"
    /\ UNCHANGED <<procVars, jsonVars, searchVars, argVars,
                   platform, destination, fs0,
                   assets, release, requests, dbody, dfail, dgot>>

\* the request of the asset is sent and a response begins
SendAssetRequest ==
    /\ dpc = "opened"
    /\ requests' = Append(requests, release)
    /\ dbody' \in Bodies /\ dfail' \in BOOLEAN
    /\ dpc' = "streaming"
    /\ UNCHANGED <<procVars, jsonVars, searchVars, argVars,
                   platform, destination, fs0,
                   fs, assets, release, dpath, dgot, dresult>>

\* the request of the asset fails
AssetRequestFails ==
    /\ dpc = "opened"
    /\ requests' = Append(requests, release)
    /\ dresult' = ErrFetch("Http") /\ dpc' = "done"
    /\ UNCHANGED <<procVars, jsonVars, searchVars, argVars,
                   platform, destination, fs0,
                   fs, assets, release, dpath, dbody, dfail, dgot>>

\* response.chunk() returns a chunk and file.write_all writes it
WriteChunk ==
    /\ dpc = "streaming" /\ dbody # <<>>
    /\ fs' = [fs EXCEPT ![dpath].bytes = write_all(@, Len(dgot), Head(dbody))]
    /\ dgot' = Append(dgot, Head(dbody))
    /\ dbody' = Tail(dbody)
    /\ UNCHANGED <<procVars, jsonVars, searchVars, argVars,
                   platform, destination, fs0,
                   dpc, assets, release, dpath, requests, dfail, dresult>>

\* response.chunk() returns an error
ChunkFails ==
    /\ dpc = "streaming" /\ dbody = <<>> /\ dfail
    /\ dresult' = ErrFetch("Http") /\ dpc' = "done"
    /\ UNCHANGED <<procVars, jsonVars, searchVars, argVars,
                   platform, destination, fs0,
                   fs, assets, release, dpath, requests, dbody, dfail, dgot>>

\* response.chunk() returns None: Ok(path)
Finish ==
    /\ dpc = "streaming" /\ dbody = <<>> /\ ~dfail
    /\ dresult' = OkPath(dpath) /\ dpc' = "done"
    /\ UNCHANGED <<procVars, jsonVars, searchVars, argVars,
                   platform, destination, fs0,
                   fs, assets, release, dpath, requests, dbody, dfail, dgot>>

DNext ==
    \/ FindNewestRelease \/ ReleaseRequestFails \/ OpenDestination
    \/ SendAssetRequest \/ AssetRequestFails \/ WriteChunk \/ ChunkFails
    \/ Finish

SpecDownload == DInit /\ [][DNext]_vars

(***************************************************************************)
(* The builder and process_args: SpecArgs.  Setters are called on a new    *)
(* builder, then process_args is called twice, as by two runs.             *)
(***************************************************************************)
\* the string a setter is called with
ValueOf(field) ==
    IF field = "playlist_items" THEN ToString(3) ELSE "v:" \o field

\* how many options of the builder are set
Configured(b) ==
    Cardinality({f \in StringOptions : b[f].some})
        + Cardinality({f \in BoolOptions : b[f]})
        + (IF b.auth.some THEN 1 ELSE 0)

AInit ==
    /\ builder \in {new(u) : u \in Urls}
    /\ args = <<>> /\ args0 = <<>> /\ runs = 0
    /\ ProcUnused /\ JsonIdle /\ SearchIdle /\ FetchIdle

\* format, socket_timeout, ... output_directory: self.field = Some(arg);
\* playlist_items(index) stores index.to_string()
SetString ==
    /\ runs = 0 /\ Configured(builder) < MaxOptions
    /\ \E f \in StringOptions :
          /\ ~builder[f].some
          /\ builder' = setter(builder, f, SomeStr(ValueOf(f)))
    /\ UNCHANGED <<procVars, jsonVars, searchVars, fetchVars, args, args0,
                   runs>>

\* flat_playlist, all_formats, playlist_reverse, extract_audio,
\* ignore_errors: self.field = arg
SetBool ==
    /\ runs = 0
    /\ \E f \in BoolOptions, arg \in BOOLEAN :
          /\ arg => Configured(builder) < MaxOptions
          /\ builder' = setter(builder, f, arg)
    /\ UNCHANGED <<procVars, jsonVars, searchVars, fetchVars, args, args0,
                   runs>>

\* auth(username, password)
Auth ==
    /\ runs = 0 /\ Configured(builder) < MaxOptions
    /\ ~builder.auth.some
    /\ builder' = setter(builder, "auth", SomeAuth("user", "secret"))
    /\ UNCHANGED <<procVars, jsonVars, searchVars, fetchVars, args, args0,
                   runs>>

\* extra_arg(arg)
ExtraArg ==
    /\ runs = 0 /\ Len(builder.extra_args) < MaxExtraArgs
    /\ \E arg \in ExtraArgValues : builder' = extra_arg(builder, arg)
    /\ UNCHANGED <<procVars, jsonVars, searchVars, fetchVars, args, args0,
                   runs>>

\* process_args(&self), called by run and run_raw
ProcessArgs ==
    /\ runs < 2
    /\ args' = process_args(builder)
    /\ args0' = IF runs = 0 THEN process_args(builder) ELSE args0
    /\ runs' = runs + 1
    /\ UNCHANGED <<procVars, jsonVars, searchVars, fetchVars, builder>>

ANext == SetString \/ SetBool \/ Auth \/ ExtraArg \/ ProcessArgs

SpecArgs == AInit /\ [][ANext]_vars

(***************************************************************************)
(* Properties of the process execution protocol (under Spec).              *)
(***************************************************************************)
\* run_process returned Ok: the wait returned the status of the child
Waited == child = "reaped"

\* every byte of the text is valid UTF-8
IsText(bytes) == \A i \in 1..Len(bytes) : bytes[i] # InvalidByte

\* C1: when the child was still running after process_timeout had passed
\* since the start of the call, the call returns Error::ProcessTimeout and
\* the child is not running at the return.
C1_TimeoutEnforced ==
    (pc = "done" /\ process_timeout.some /\ ranPast)
        => (result.kind = "ProcessTimeout" /\ child # "running")

\* the child can only go on by a write to stderr, whose pipe is full
ChildBlockedOnStderr ==
    /\ child = "running" /\ outRem = <<>>
    /\ errRem # <<>> /\ Len(errBuf) = PipeCap

\* the caller is in a read of the stdout pipe, which is empty and open
CallerBlockedOnStdout == pc = "copy" /\ outBuf = <<>> /\ stdoutOpen

\* C2: in no reachable state does the caller block in a read of one pipe
\* while the child blocks in a write to the other, full pipe.
C2_NoPipeDeadlock == ~(CallerBlockedOnStdout /\ ChildBlockedOnStderr)

\* C5: a child that exited with a non-zero code, ignore_errors unset: run
\* and run_raw return Error::ExitCode with that code and with the text the
\* child wrote to stderr; nothing is deserialized.
C5_ExitCodeReported ==
    (/\ pc = "done" /\ op \in {"run", "run_raw"} /\ Waited
     /\ ~script.status.sig /\ script.status.code # 0
     /\ ~ignore_errors /\ IsText(script.err))
        => result = ErrExitCode(script.status.code, script.err)

C5_Witness ==
    /\ pc = "done" /\ op = "run" /\ Waited /\ ~ignore_errors
    /\ script.out # <<>>
    /\ result.kind = "ExitCode" /\ result.code = 2
    /\ result.stderr = <<"ERROR: video unavailable">>

\* C6: with ignore_errors set no call returns Error::ExitCode; and when the
\* child exited zero or ignore_errors is set, run returns what the
\* deserializer makes of everything the child wrote to stdout: the Ok value,
\* or Error::Json (always so for an empty stdout).
C6_IgnoreErrorsDeserializes ==
    /\ (pc = "done" /\ ignore_errors) => result.kind # "ExitCode"
    /\ (/\ pc = "done" /\ op = "run" /\ Waited
        /\ (ignore_errors \/ success(script.status)))
          => /\ result.kind \in {"Ok", "Json"}
             /\ result.out.ok = (result.kind = "Ok")
             /\ result.kind = "Ok" => result.out = process_json_output(script.out)
             /\ result.kind = "Json" => ~process_json_output(script.out).ok
             /\ script.out = <<>> => result.kind = "Json"

C6_Witness ==
    /\ pc = "done" /\ op = "run" /\ Waited /\ ignore_errors
    /\ script.status.code = 2
    /\ result.kind = "Ok" /\ result.out.variant = "Playlist"

\* nothing of the call after the spawn has happened
NothingStarted ==
    /\ child = "none" /\ ~stdoutOpen
    /\ outBuf = <<>> /\ errBuf = <<>> /\ stdout = <<>> /\ stderr = <<>>
    /\ outRem = script.out /\ errRem = script.err
    /\ now = 0 /\ waitStart = 0

\* C7: when the executable cannot be spawned, the call is either about to
\* return or has returned Error::Io, and no pipe was read, no wait or
\* timeout begun and no time has passed.
C7_SpawnFailureIsIo ==
    ~spawn_ok =>
        /\ NothingStarted
        /\ \/ /\ pc = "start" /\ result = NoResult
              /\ ENABLED (SpawnFail \/ SpawnFailAsync)
           \/ pc = "done" /\ result = ErrIo

C7_Witness ==
    /\ ~spawn_ok /\ pc = "done" /\ result.kind = "Io"
    /\ process_timeout.some /\ op = "download_to"

(***************************************************************************)
(* Properties of the deserializer (under SpecJson).                        *)
(***************************************************************************)
\* the schema of the structs of model.rs, on JSON values
IsOptStr(jv) == jv.k \in {"absent", "null", "str"}
IsOptProtocol(jv) ==
    jv.k \in {"absent", "null"} \/ (jv.k = "str" /\ jv.s \in ProtocolTags)
IsFormat(o) ==
    IsOptStr(o.acodec) /\ IsOptStr(o.vcodec) /\ IsOptProtocol(o.protocol)
IsFormats(arr) ==
    arr.k \in {"absent", "null"} \/ \A i \in 1..Len(arr.a) : IsFormat(arr.a[i])
IsFragments(arr) ==
    arr.k \in {"absent", "null"}
        \/ \A i \in 1..Len(arr.a) : IsOptStr(arr.a[i].url)
IsItem(v) ==
    /\ v.k = "obj" /\ v.id.k = "str" /\ v.title.k = "str"
    /\ IsOptStr(v.acodec) /\ IsOptStr(v.vcodec) /\ IsOptProtocol(v.protocol)
    /\ IsFormats(v.formats) /\ IsFragments(v.fragments)
IsPlaylist(v) ==
    /\ v.k = "obj" /\ IsOptStr(v.id) /\ IsOptStr(v.title)
    /\ \/ v.entries.k \in {"absent", "null"}
       \/ \A i \in 1..Len(v.entries.a) : IsItem(v.entries.a[i])

\* the deserializer was given the text of one JSON value and has returned
Deserialized == jphase = "out" /\ Len(jin) = 1 /\ jin[1].t = "doc"
\* that value
Source == jin[1].v

\* C3: a media item (object with string id and title, the other keys of
\* their types) whose `_type` is absent or anything but "playlist" comes
\* back as the SingleVideo variant of that item; and no value whose `_type`
\* is not "playlist" comes back as the Playlist variant.
C3_SingleVideoVariant ==
    (Deserialized /\ Source.type_ # Str("playlist"))
        => /\ jout.variant # "Playlist"
           /\ IsItem(Source) =>
                /\ jout.ok /\ jout.variant = "SingleVideo"
                /\ jout.video.id = Source.id.s
                /\ jout.video.title = Source.title.s

C3_Witness ==
    /\ Deserialized /\ IsItem(Source)
    /\ Source.type_ \in {Str("video"), Null, Num("1")}
    /\ jout.ok /\ jout.variant = "SingleVideo" /\ jout.video.id = "a"

\* C4: a playlist document (`_type` the string "playlist", the keys of
\* their types) comes back as the Playlist variant, and its entries are the
\* media items of the source `entries`, as many and in the same order.
C4_PlaylistEntriesInOrder ==
    (Deserialized /\ Source.k = "obj" /\ Source.type_ = Str("playlist")
     /\ IsPlaylist(Source))
        => /\ jout.ok /\ jout.variant = "Playlist"
           /\ jout.playlist.entries.some = (Source.entries.k = "arr")
           /\ Len(jout.playlist.entries.a) = Len(Source.entries.a)
           /\ \A i \in 1..Len(Source.entries.a) :
                /\ jout.playlist.entries.a[i].id = Source.entries.a[i].id.s
                /\ jout.playlist.entries.a[i]
                       = DeSingleVideo(Source.entries.a[i]).val

C4_Witness ==
    /\ Deserialized /\ jout.ok /\ jout.variant = "Playlist"
    /\ Len(jout.playlist.entries.a) = 2
    /\ jout.playlist.entries.a[1].id = "a"
    /\ jout.playlist.entries.a[2].id = "b"

\* the Protocol member the tag names, Unknown for any other string
ProtocolMember(tag) ==
    IF tag \in ProtocolTags THEN ProtocolVariants[tag] ELSE "Unknown"

\* C8: a `protocol` that is a string never makes a media item fail to
\* deserialize: a known tag gives its Protocol member, any other string
\* gives Protocol::Unknown.
C8_ProtocolNeverFails ==
    (/\ Deserialized /\ Source.type_ # Str("playlist")
     /\ IsItem([Source EXCEPT !.protocol = Absent])
     /\ Source.protocol.k = "str")
        => /\ jout.ok
           /\ jout.video.protocol
                = Some("Protocol", ProtocolMember(Source.protocol.s))

\* the codec rule: "none", null and a missing key are None, any other
\* string is Some of it
CodecRule(jv, o) ==
    /\ (jv.k \in {"absent", "null"} \/ jv = Str("none")) => o = None
    /\ (jv.k = "str" /\ jv.s # "none") => o = Some("str", jv.s)
    /\ o # Some("str", "none")

\* the formats of an item follow the codec rule
FormatsFollowRule(src, out) ==
    src.formats.k = "arr" =>
        /\ out.formats.some /\ Len(out.formats.a) = Len(src.formats.a)
        /\ \A i \in 1..Len(src.formats.a) :
              /\ CodecRule(src.formats.a[i].acodec, out.formats.a[i].acodec)
              /\ CodecRule(src.formats.a[i].vcodec, out.formats.a[i].vcodec)

\* C9: the acodec and vcodec of every Format of a deserialized media item
\* (also of a playlist entry) follow the codec rule, and a media item whose
\* keys are of their types does deserialize.
C9_FormatCodecs ==
    /\ (Deserialized /\ jout.ok /\ jout.variant = "SingleVideo")
          => FormatsFollowRule(Source, jout.video)
    /\ (Deserialized /\ jout.ok /\ jout.variant = "Playlist")
          => \A i \in 1..Len(jout.playlist.entries.a) :
                FormatsFollowRule(Source.entries.a[i],
                                  jout.playlist.entries.a[i])
    /\ (Deserialized /\ IsItem(Source) /\ Source.type_ # Str("playlist"))
          => jout.ok

C9_Witness ==
    /\ Deserialized /\ jout.ok /\ jout.variant = "SingleVideo"
    /\ Len(Source.formats.a) = 2
    /\ Source.formats.a[1].acodec = Str("none")
    /\ Source.formats.a[1].vcodec = Str("none")
    /\ Source.formats.a[2].acodec = Str("opus")
    /\ jout.video.formats.a[1].acodec = None
    /\ jout.video.formats.a[2].acodec = Some("str", "opus")

\* no codec of the item is the string "none"
NoNoneCodec(item) ==
    /\ item.acodec # Some("str", "none")
    /\ item.vcodec # Some("str", "none")
    /\ \A i \in 1..Len(item.formats.a) :
          /\ item.formats.a[i].acodec # Some("str", "none")
          /\ item.formats.a[i].vcodec # Some("str", "none")

\* C10: no acodec or vcodec of a returned value, at any level, is the
\* string "none".
C10_NoNoneCodecAnywhere ==
    (jphase = "out" /\ jout.ok)
        => /\ NoNoneCodec(jout.video)
           /\ \A i \in 1..Len(jout.playlist.entries.a) :
                 NoNoneCodec(jout.playlist.entries.a[i])

(***************************************************************************)
(* The text of stderr in Error::ExitCode (under Spec).                     *)
(***************************************************************************)
Replacement == "<U+FFFD>"

\* a permissive decoding: every invalid byte becomes the replacement
\* character and every other byte is kept
Lossy(bytes) ==
    [i \in 1..Len(bytes) |->
        IF bytes[i] = InvalidByte THEN Replacement ELSE bytes[i]]

\* C11: a child that exited unsuccessfully, ignore_errors unset: run and
\* run_raw return Error::ExitCode whose text is the stderr of the child
\* with each invalid byte replaced; with invalid bytes in stderr the call
\* neither fails otherwise nor loses the remaining text.
C11_StderrDecodedLossy ==
    (/\ pc = "done" /\ op \in {"run", "run_raw"} /\ Waited
     /\ ~success(script.status) /\ ~ignore_errors)
        => /\ result.kind = "ExitCode"
           /\ result.stderr = Lossy(script.err)

(***************************************************************************)
(* Required and optional keys (under SpecJson).                            *)
(***************************************************************************)
\* `id` or `title` of the object is missing or null
LacksRequired(v) ==
    v.id.k \in {"absent", "null"} \/ v.title.k \in {"absent", "null"}

\* the keys of a media item other than `id` and `title`
OptionalScalars ==
    {"type_", "acodec", "vcodec", "protocol", "duration", "average_rating",
     "playlist_index"}
OptionalArrays == {"formats", "fragments"}

\* the object with nothing but the given `_type`, `id` and `title`
Bare(ty, id, ti) ==
    [NullValue EXCEPT !.k = "obj", !.type_ = ty, !.id = id, !.title = ti]

\* C12: a media item whose `id` or `title` is missing or null is an error
\* and never a value with a default in its place; a media item with no
\* other key deserializes, with None for each of them, and so does an item
\* from which one optional key is taken away; a playlist with no key but
\* `_type` deserializes; a playlist one of whose entries lacks `id` or
\* `title` is an error as a whole.
C12_RequiredFields ==
    /\ (Deserialized /\ Source.k = "obj" /\ ~is_playlist(Source)
        /\ LacksRequired(Source))
          => (~jout.ok /\ jout.err = "data")
    /\ (Deserialized /\ jout.ok /\ jout.variant = "SingleVideo")
          => /\ Source.id.k = "str" /\ jout.video.id = Source.id.s
             /\ Source.title.k = "str" /\ jout.video.title = Source.title.s
             /\ \A f \in OptionalScalars \ {"type_"} :
                   process_json_output(
                       <<DocTok([Source EXCEPT ![f] = Absent])>>).ok
             /\ \A f \in OptionalArrays :
                   process_json_output(
                       <<DocTok([Source EXCEPT ![f] = NoArr])>>).ok
    /\ (Deserialized /\ ~is_playlist(Source) /\ Source.id.k = "str"
        /\ Source.title.k = "str"
        /\ Source = Bare(Source.type_, Source.id, Source.title))
          => /\ jout.ok /\ jout.variant = "SingleVideo"
             /\ jout.video = [DefaultSingleVideo EXCEPT
                                 !.id = Source.id.s, !.title = Source.title.s]
    /\ (Deserialized /\ Source = Bare(Str("playlist"), Absent, Absent))
          => /\ jout.ok /\ jout.variant = "Playlist"
             /\ jout.playlist = DefaultPlaylist
    /\ (Deserialized /\ is_playlist(Source) /\ Source.entries.k = "arr"
        /\ \E i \in 1..Len(Source.entries.a) :
              LacksRequired(Source.entries.a[i]))
          => (~jout.ok /\ jout.err = "data")

C12_Witness ==
    /\ Deserialized /\ is_playlist(Source)
    /\ Len(Source.entries.a) = 2
    /\ IsItem(Source.entries.a[1])
    /\ Source.entries.a[2].title.k = "absent"
    /\ Source.entries.a[2].id.k = "str"
    /\ ~jout.ok

(***************************************************************************)
(* The errors of the deserializer (under SpecJson).                        *)
(***************************************************************************)
\* the variants of Error returned for well-formed JSON without `id` or
\* without `title`
SchemaErrorVariants ==
    { ErrorOf(process_json_output(<<DocTok(d)>>)).variant :
        d \in { Bare(Absent, Absent, Str("t")), Bare(Absent, Str("a"), Absent) } }

\* C13 as stated: a match on the returned Error tells a parse error from a
\* schema error: bytes that are not JSON return a variant of Error that no
\* well-formed document without a required key returns.
C13_TwoErrorKinds ==
    (jphase = "out" /\ ~from_reader(jin).ok)
        => (~jout.ok /\ ErrorOf(jout).variant \notin SchemaErrorVariants)

\* C13, amended: both failures return the same variant, Error::Json; they
\* differ in the category of the serde_json error it wraps: Syntax or Eof
\* for bytes that are not JSON, Data for a well-formed media item without
\* `id` or `title`.
C13_OneVariantTwoCategories ==
    /\ (jphase = "out" /\ ~from_reader(jin).ok)
          => /\ ~jout.ok /\ ErrorOf(jout).variant = "Json"
             /\ ErrorOf(jout).category \in {"syntax", "eof"}
    /\ (Deserialized /\ Source.k = "obj" /\ ~is_playlist(Source)
        /\ LacksRequired(Source))
          => (~jout.ok /\ ErrorOf(jout) = [variant |-> "Json",
                                            category |-> "data"])

C13_Witness ==
    /\ jphase = "out" /\ jin = <<DocTok(VideoDoc), Bad>>
    /\ ErrorOf(jout) = [variant |-> "Json", category |-> "syntax"]

(***************************************************************************)
(* Keys read as any JSON value (under SpecJson).                           *)
(***************************************************************************)
LooseKeys == {"duration", "average_rating", "playlist_index"}

\* the JSON value is a string or a number
IsStrOrNum(jv) == jv.k \in {"str", "num"}

\* the stored value has the JSON type and the text of the source value
Kept(stored, jv) == stored = [some |-> TRUE, k |-> jv.k, s |-> jv.s]

\* C14: a media item whose other keys are of their types deserializes
\* whether `duration`, `average_rating` and `playlist_index`, and the
\* `duration` of each of its fragments, are strings or numbers; each stored
\* value is a string with the same text when the source is a string and a
\* number with the same text when the source is a number.
C14_LooseValuesKept ==
    (Deserialized /\ ~is_playlist(Source) /\ IsItem(Source))
        => /\ jout.ok /\ jout.variant = "SingleVideo"
           /\ \A f \in LooseKeys :
                 IsStrOrNum(Source[f]) => Kept(jout.video[f], Source[f])
           /\ Len(jout.video.fragments.a) = Len(Source.fragments.a)
           /\ \A i \in 1..Len(Source.fragments.a) :
                 IsStrOrNum(Source.fragments.a[i].duration)
                    => Kept(jout.video.fragments.a[i].duration,
                            Source.fragments.a[i].duration)

C14_Witness ==
    /\ Deserialized /\ jout.ok /\ jout.variant = "SingleVideo"
    /\ Source.duration = Str("123.4")
    /\ Source.average_rating = Num("4.5")
    /\ Source.playlist_index = Str("3")
    /\ Len(Source.fragments.a) = 2
    /\ Source.fragments.a[1].duration = Str("1.5")
    /\ Source.fragments.a[2].duration = Num("1.5")
    /\ jout.video.duration = Some("str", "123.4")
    /\ jout.video.average_rating = Some("num", "4.5")
    /\ jout.video.fragments.a[1].duration = Some("str", "1.5")
    /\ jout.video.fragments.a[2].duration = Some("num", "1.5")

(***************************************************************************)
(* The projections of YoutubeDlOutput (under SpecJson).                    *)
(***************************************************************************)
\* C15: on every returned YoutubeDlOutput both projections can be called;
\* into_single_video returns Some exactly for the SingleVideo variant and
\* into_playlist exactly for the Playlist variant, each with the value the
\* variant wraps; so exactly one of the two returns Some.
C15_ProjectionsExclusive ==
    /\ (jphase = "out" /\ jout.ok /\ ~jsv.called) => ENABLED IntoSingleVideo
    /\ (jphase = "out" /\ jout.ok /\ ~jpl.called) => ENABLED IntoPlaylist
    /\ jsv.called
          => /\ jsv.some = (jout.variant = "SingleVideo")
             /\ jsv.some => jsv.val = jout.video
    /\ jpl.called
          => /\ jpl.some = (jout.variant = "Playlist")
             /\ jpl.some => jpl.val = jout.playlist
    /\ (jsv.called /\ jpl.called) => (jsv.some # jpl.some)

C15_Witness ==
    /\ jsv.called /\ jpl.called
    /\ jout.variant = "Playlist"
    /\ ~jsv.some /\ jpl.some
    /\ Len(jpl.val.entries.a) = 2 /\ jpl.val.entries.a[2].id = "b"

(***************************************************************************)
(* The search string (under SpecSearch).                                   *)
(***************************************************************************)
\* the prefix of each provider
ProviderPrefix ==
    [Youtube |-> "ytsearch", Yahoo |-> "yvsearch", Google |-> "gvsearch",
     SoundCloud |-> "scsearch"]

PrefixOf(t) == IF t.tag = "Custom" THEN t.name ELSE ProviderPrefix[t.tag]

\* the count a search is made with: the last one given, 1 when none was
CountOf(given) == IF given.counted THEN given.count ELSE 1

\* C16: the options hold the provider and the query the constructor was
\* given, whatever with_count was applied, and the last count given (1
\* without one); the url of the builder search_for returns is the prefix of
\* the provider (the name itself for a custom one), the count in decimal,
\* a colon and the query.
C16_SearchRendering ==
    /\ sphase \in {"options", "searched"}
          => /\ sopts.search_type = sgiven.search_type
             /\ sopts.query = sgiven.query
             /\ sopts.count = CountOf(sgiven)
    /\ sphase = "searched"
          => surl = PrefixOf(sgiven.search_type) \o ToString(CountOf(sgiven))
                        \o ":" \o sgiven.query

C16_Witness ==
    /\ sphase = "searched"
    /\ sgiven.search_type.tag = "Yahoo"
    /\ sgiven.counted /\ sgiven.count = 3
    /\ surl = "yvsearch3:a:b 1"

(***************************************************************************)
(* The release fetcher (under SpecDownload).                               *)
(***************************************************************************)
\* the asset requests sent so far
AssetRequests == SubSeq(requests, 2, Len(requests))

\* C17: a release none of whose assets is named FILE_NAME makes download
\* return Error::NoReleaseFound with the filesystem as it was and no
\* request sent but the one of the release; with a matching asset the url
\* used, in find_newest_release's result and in every asset request, is the
\* browser_download_url of the first asset so named.
C17_NoReleaseFoundFirst ==
    /\ (dpc # "start" /\ dresult.kind \notin {"Http", "Json"}
        /\ Matching(assets, platform) = {})
          => /\ dpc = "done" /\ dresult = ErrFetch("NoReleaseFound")
             /\ fs = fs0
             /\ requests = <<ReleasesLatest>>
    /\ (dpc # "start" /\ Matching(assets, platform) # {})
          => /\ dresult.kind # "NoReleaseFound"
             /\ \E i \in Matching(assets, platform) :
                   /\ \A j \in Matching(assets, platform) : i <= j
                   /\ release = assets[i].browser_download_url
             /\ \A k \in 1..Len(AssetRequests) : AssetRequests[k] = release
    /\ dpc = "start" => (requests = <<>> /\ fs = fs0)

C17_Witness ==
    /\ dpc = "done" /\ dresult.kind = "Ok"
    /\ Len(assets) = 2
    /\ Matching(assets, platform) = {1, 2}
    /\ requests = <<ReleasesLatest, assets[1].browser_download_url>>

\* the destination was a directory before the call
WasDirectory == exists(fs0, destination) /\ ~is_file(fs0, destination)

\* where the binary belongs: under a destination that is a directory, at a
\* destination that is a file path (an existing file or nothing yet)
Wanted ==
    IF WasDirectory
    THEN join(destination, FILE_NAME(platform))
    ELSE destination

\* C18: when download returns Ok(path), path is destination/FILE_NAME for a
\* destination that was a directory and the destination itself for one
\* that was a file or did not exist; a file is at that path, executable
\* where the platform has the permission, every directory above it exists,
\* and nothing else in the filesystem has changed.
C18_WrittenWhereAsked ==
    (dpc = "done" /\ dresult.kind = "Ok")
        => /\ dresult.path = Wanted
           /\ fs[Wanted].kind = "file"
           /\ platform = "unix" => fs[Wanted].exec
           /\ \A q \in Prefixes(Parent(Wanted)) : fs[q].kind = "dir"
           /\ \A q \in DOMAIN fs :
                 (q # Wanted /\ q \notin Prefixes(Parent(Wanted)))
                    => fs[q] = fs0[q]

(***************************************************************************)
(* The two modes (under Spec).                                             *)
(***************************************************************************)
\* a step of the caller, in either mode
CallerStep ==
    \/ Spawn \/ SpawnFail \/ CopyRead \/ CopyEof \/ WaitExit \/ WaitTimeout
    \/ ReadStderr \/ RunReturn \/ RunRawReturn \/ DownloadReturn
    \/ SpawnAsync \/ SpawnFailAsync \/ CopyReadAsync \/ CopyEofAsync
    \/ WaitExitAsync \/ WaitTimeoutAsync \/ ReadStderrAsync \/ RunReturnAsync
    \/ RunRawReturnAsync \/ DownloadReturnAsync

\* when the caller can take a step, whatever the mode
CanStep ==
    CASE pc = "start" -> TRUE
      [] pc = "copy" -> outBuf # <<>> \/ ~stdoutOpen
      [] pc = "wait" -> child = "exited" \/ (child = "running" /\ TimeoutDue)
      [] pc = "stderr" -> TRUE
      [] pc = "return" -> TRUE
      [] OTHER -> FALSE

\* what the sync operation makes of everything the child wrote and of its
\* status
SyncReturn ==
    CASE op = "run" ->
            run(script.out, script.err, script.status, ignore_errors)
      [] op = "run_raw" ->
            run_raw(script.out, script.err, script.status, ignore_errors)
      [] op = "download_to" ->
            download_to(script.out, script.err, script.status, ignore_errors)

\* C19: in both modes the caller can take a step in the same states; a
\* call that has returned has returned Error::Io with no child when the
\* spawn failed, Error::ProcessTimeout with the child killed when the
\* timeout elapsed in the wait, and otherwise, with the child waited for,
\* what the sync operation returns for the output and status of the child.
C19_SameOutcome ==
    /\ ENABLED CallerStep <=> CanStep
    /\ pc = "done"
          => /\ ~spawn_ok => (result = ErrIo /\ child = "none")
             /\ spawn_ok => child \in {"killed", "reaped"}
             /\ child = "killed"
                   => /\ result = ErrProcessTimeout
                      /\ process_timeout.some
                      /\ now - waitStart >= process_timeout.d
             /\ child = "reaped" => result = SyncReturn

C19_Witness ==
    /\ mode = "async" /\ pc = "done" /\ op = "run"
    /\ process_timeout.some /\ child = "killed"
    /\ result = ErrProcessTimeout

\* C20: the timeout runs from the start of the call, also while stdout is
\* copied: the caller is never still in the copy of stdout, with the child
\* running, after the timeout has passed.
C20_TimeoutRacesCopy ==
    ~(/\ pc = "copy" /\ child = "running"
      /\ process_timeout.some /\ now > process_timeout.d)

(***************************************************************************)
(* The life of one invocation (under Spec).                                *)
(***************************************************************************)
\* where the invocation stands
Phase ==
    CASE pc = "start" -> "NotStarted"
      [] pc \in {"copy", "wait", "stderr", "return"} -> "Running"
      [] pc = "done" /\ child = "none" -> "SpawnFailed"
      [] pc = "done" /\ child = "killed" -> "TimedOut"
      [] pc = "done" /\ child = "reaped" -> "Completed"
      [] OTHER -> "other"

Terminal == {"Completed", "TimedOut", "SpawnFailed"}

\* the phases one step can lead to
PhaseNext(ph) ==
    CASE ph = "NotStarted" -> {"NotStarted", "Running", "SpawnFailed"}
      [] ph = "Running" -> {"Running", "Completed", "TimedOut"}
      [] OTHER -> {ph}

\* what holds of every state of an invocation
LifeInv ==
    /\ Phase # "other"
    /\ Phase = "NotStarted" => child = "none" /\ result = NoResult
    /\ Phase = "Running"
          => child \in {"running", "exited", "reaped"} /\ result = NoResult
    /\ Phase = "SpawnFailed" => ~spawn_ok /\ result = ErrIo
    /\ Phase = "Completed"
          => /\ exit_code = script.status
             /\ result.kind \notin {"none", "Io", "ProcessTimeout"}
    /\ Phase = "TimedOut"
          => /\ result = ErrProcessTimeout
             /\ process_timeout.some
             /\ now - waitStart >= process_timeout.d
             /\ exit_code = [sig |-> FALSE, code |-> 0]
    /\ ~process_timeout.some
          => child # "killed" /\ result # ErrProcessTimeout

\* what holds of every step of an invocation
LifeStep ==
    /\ Phase' \in PhaseNext(Phase)
    /\ child' = "running" /\ child # "running"
          => pc = "start" /\ child = "none"
    /\ child # "none" => child' # "none"
    /\ Phase \in Terminal
          => result' = result /\ child' = child /\ exit_code' = exit_code
    /\ pc = "wait" /\ pc' # "wait"
          => \/ child = "exited" /\ Phase' = "Running"
             \/ child = "running" /\ TimeoutDue /\ Phase' = "TimedOut"

C22_DownloadExitCode ==
    (/\ pc = "done" /\ op = "download_to" /\ Waited
     /\ ~script.status.sig /\ script.status.code # 0
     /\ ~ignore_errors)
        => /\ result.kind = "ExitCode"
           /\ result.code = script.status.code

(***************************************************************************)
(* The argument vector (under SpecArgs).                                   *)
(***************************************************************************)
\* the flag of each option: common_args, and the doc comment of
\* playlist_reverse for the one flag common_args does not have
FlagOf ==
    [format |-> "-f", socket_timeout |-> "--socket-timeout",
     cookies |-> "--cookies", user_agent |-> "--user-agent",
     referer |-> "--referer", date_before |-> "--datebefore",
     date_after |-> "--dateafter", date |-> "--date",
     playlist_items |-> "--playlist-items", output_template |-> "-o",
     output_directory |-> "-P", flat_playlist |-> "--flat-playlist",
     all_formats |-> "--all-formats",
     playlist_reverse |-> "--playlist-reverse",
     extract_audio |-> "--extract-audio",
     ignore_errors |-> "--ignore-errors"]

\* how often x is an element of the vector, and how often x is followed by y
Count(v, x) == Cardinality({i \in DOMAIN v : v[i] = x})
CountPair(v, x, y) ==
    Cardinality({i \in 1..(Len(v) - 1) : v[i] = x /\ v[i + 1] = y})

Once(b) == IF b THEN 1 ELSE 0

\* an option with a value is rendered as one flag and value pair when set
\* and not at all when unset
StringsOnce ==
    \A f \in StringOptions :
        /\ Count(args, FlagOf[f]) = Once(builder[f].some)
        /\ CountPair(args, FlagOf[f], builder[f].s) = Once(builder[f].some)

\* a switch is rendered as one flag when set and not at all when unset
BoolsOnce ==
    \A f \in BoolOptions : Count(args, FlagOf[f]) = Once(builder[f])

AuthOnce ==
    /\ CountPair(args, "-u", builder.auth.user) = Once(builder.auth.some)
    /\ CountPair(args, "-p", builder.auth.password)
          = Once(builder.auth.some)

\* the extra arguments, in insertion order, are the last elements before
\* `-J` and the url
ExtraArgsLast ==
    LET n == Len(args)
        k == Len(builder.extra_args)
    IN  /\ n >= k + 2
        /\ SubSeq(args, n - 1 - k, n - 2) = builder.extra_args
        /\ args[n - 1] = "-J"
        /\ args[n] = builder.url

\* C23: in the vector process_args builds every option that is set is
\* rendered once and every unset option not at all (output_directory as one
\* `-P <dir>` pair), the extra arguments follow all built-in flags in
\* insertion order, the vector ends with `-J` and the url, and a second
\* call builds the same vector.
C23_ArgsRenderedOnce ==
    runs >= 1
        => /\ StringsOnce /\ BoolsOnce /\ AuthOnce
           /\ ExtraArgsLast
           /\ runs = 2 => args = args0

(***************************************************************************)
(* The content of the downloaded file (under SpecDownload).                *)
(***************************************************************************)
\* C24: when download returns Ok(path), the file at path holds the bytes of
\* the asset response and nothing else, whatever was at path before.
C24_FileHoldsAsset ==
    (dpc = "done" /\ dresult.kind = "Ok")
        => /\ fs[dresult.path].kind = "file"
           /\ fs[dresult.path].bytes = dgot

====
